---- MODULE Spec2Model ----
(***************************************************************************)
(* A model of src/src/wallet.c: the BIP39 mnemonic codec, the BIP32 path   *)
(* parser and key generator, the signer, and the transaction-output        *)
(* parser.  C strings are sequences of one-character strings; a buffer is  *)
(* the sequence of the bytes it holds, a zero byte being the element NUL.  *)
(***************************************************************************)
EXTENDS Integers, Sequences, FiniteSets, TLC

\* ---------------------------------------------------------------- codes
DBB_OK == "DBB_OK"
DBB_ERROR == "DBB_ERROR"
DBB_ERROR_MEM == "DBB_ERROR_MEM"
DBB_KEY_PRESENT == "DBB_KEY_PRESENT"
DBB_KEY_ABSENT == "DBB_KEY_ABSENT"
DBB_ERR_SIGN_HASH_LEN == "DBB_ERR_SIGN_HASH_LEN"
DBB_ERR_SIGN_ADDR_LEN == "DBB_ERR_SIGN_ADDR_LEN"
DBB_ERR_KEY_MASTER == "DBB_ERR_KEY_MASTER"
DBB_ERR_KEY_CHILD == "DBB_ERR_KEY_CHILD"
DBB_ERR_SIGN_ECCLIB == "DBB_ERR_SIGN_ECCLIB"

NUL == "NUL"

\* ---------------------------------------------------------------- strings
\* n copies of the character c
Rep(c, n) == [i \in 1..n |-> c]

\* the first n characters of s (all of s when it is shorter)
Take(s, n) == IF n <= 0 THEN <<>> ELSE SubSeq(s, 1, IF n < Len(s) THEN n ELSE Len(s))

\* s from the 0-based offset k on (empty when k is at or past the end)
Drop(s, k) == IF k >= Len(s) THEN <<>> ELSE SubSeq(s, k + 1, Len(s))

\* the C expression strlens(s): the length of s, 0 for a NULL pointer
strlens(s) == Len(s)

\* strstr(hay, needle) != NULL
strstr(hay, needle) ==
    \E k \in 0..(Len(hay) - Len(needle)) : SubSeq(hay, k + 1, k + Len(needle)) = needle

\* strchr(set, c) != NULL for a character c other than NUL
strchr(set, c) == \E k \in 1..Len(set) : set[k] = c

\* the positions of s at which a strtok() token starts: a character not in
\* delims that is the first of s or follows one in delims
TokStarts(s, delims) ==
    {k \in 1..Len(s) : ~strchr(delims, s[k]) /\ (k = 1 \/ strchr(delims, s[k - 1]))}

\* the position of the last character of the token that starts at k
TokEnd(s, delims, k) ==
    CHOOSE j \in k..Len(s) :
        /\ \A m \in k..j : ~strchr(delims, s[m])
        /\ (j = Len(s) \/ strchr(delims, s[j + 1]))

\* the tokens successive strtok() calls return over s: the maximal non-empty runs
\* of characters that are not in delims, in order
strtok_all(s, delims) ==
    LET Toks(starts) ==
            LET nth(r) == CHOOSE k \in starts : Cardinality({m \in starts : m < k}) = r - 1
            IN  [r \in 1..Cardinality(starts) |-> SubSeq(s, nth(r), TokEnd(s, delims, nth(r)))]
    IN  Toks(TokStarts(s, delims))

\* ---------------------------------------------------------------- integers
\* A uint32_t is kept as two 16-bit limbs [hi, lo]; a uint64_t that is only
\* compared with UINT32_MAX is kept exactly up to UINT32_MAX and as big = TRUE
\* above it (strtoull saturates at ULLONG_MAX, which is above UINT32_MAX too).
Limb == 256 * 256
HardenedLimb == 128 * 256

U32(h, l) == [big |-> FALSE, hi |-> h, lo |-> l]
TooBig == [big |-> TRUE, hi |-> 0, lo |-> 0]

digits == <<"0", "1", "2", "3", "4", "5", "6", "7", "8", "9">>
prime == <<"p", "h", "H", "'">>
delim == <<"/">>

DigitVal(c) == (CHOOSE k \in 1..10 : digits[k] = c) - 1

RECURSIVE strtoull10(_, _, _)
\* strtoull(s, NULL, 10): the value of the leading decimal digits of s
strtoull10(s, k, acc) ==
    IF k > Len(s) \/ ~strchr(digits, s[k])
    THEN acc
    ELSE IF acc.big
         THEN TooBig
         ELSE LET lo2 == acc.lo * 10 + DigitVal(s[k])
                  hi2 == acc.hi * 10 + (lo2 \div Limb)
              IN  IF hi2 >= Limb
                  THEN TooBig
                  ELSE strtoull10(s, k + 1, U32(hi2, lo2 % Limb))

\* idx > UINT32_MAX
AboveUint32Max(idx) == idx.big

\* (uint32_t)(i | 0x80000000)
OrHardened(i) == U32(IF i.hi >= HardenedLimb THEN i.hi ELSE i.hi + HardenedLimb, i.lo)

\* ---------------------------------------------------------------- HD node
\* A key or chain code is the term naming how it was derived: the stored
\* master page it started from and the child numbers applied to it.
NoKey == [root |-> "none", path |-> <<>>]

\* a stack HDNode that was never written
UninitNode ==
    [state |-> "uninit", depth |-> 0, child_num |-> U32(0, 0), fingerprint |-> 0,
     chain_code |-> NoKey, private_key |-> NoKey]

\* memset(&node, 0, sizeof(HDNode))
ZeroNode ==
    [state |-> "zero", depth |-> 0, child_num |-> U32(0, 0), fingerprint |-> 0,
     chain_code |-> NoKey, private_key |-> NoKey]

IsKeyMaterial(node) == node.state = "key"

\* hdnode_private_ckd(node, i): one CKDpriv step with child number i
hdnode_private_ckd(node, i) ==
    [state |-> "key",
     depth |-> node.depth + 1,
     child_num |-> i,
     fingerprint |-> node.depth + 1,
     chain_code |-> [root |-> node.chain_code.root, path |-> Append(node.chain_code.path, i)],
     private_key |-> [root |-> node.private_key.root, path |-> Append(node.private_key.path, i)]]

\* hdnode_private_ckd_prime(node, i): the hardened step, child number i | 0x80000000
hdnode_private_ckd_prime(node, i) == hdnode_private_ckd(node, OrHardened(i))

\* ---------------------------------------------------------------- key path
RECURSIVE LevelCharsOk(_, _)
\* the character loop of wallet_generate_key over one token: every character is
\* a digit, or a hardened marker in the last position
LevelCharsOk(pch, i) ==
    IF i > Len(pch)
    THEN TRUE
    ELSE IF strchr(prime, pch[i])
         THEN i = Len(pch) /\ LevelCharsOk(pch, i + 1)
         ELSE strchr(digits, pch[i]) /\ LevelCharsOk(pch, i + 1)

\* prm after the character loop
LevelPrm(pch) == \E i \in 1..Len(pch) : strchr(prime, pch[i])

RECURSIVE generate_key_loop(_, _, _, _, _)
\* the while (pch != NULL) loop: toks are the tokens left, derivs the steps applied
generate_key_loop(node, toks, k, ckdOk, derivs) ==
    LET Level(pch, idx) ==
            IF ~LevelCharsOk(pch, 1) \/ AboveUint32Max(idx) \/ ~ckdOk
            THEN [ret |-> DBB_ERROR, node |-> node, derivs |-> derivs]
            ELSE IF LevelPrm(pch)
                 THEN generate_key_loop(hdnode_private_ckd_prime(node, idx), toks, k + 1,
                                        ckdOk, Append(derivs, OrHardened(idx)))
                 ELSE generate_key_loop(hdnode_private_ckd(node, idx), toks, k + 1,
                                        ckdOk, Append(derivs, idx))
    IN  IF k > Len(toks)
        THEN [ret |-> DBB_OK, node |-> node, derivs |-> derivs]
        ELSE Level(toks[k], strtoull10(toks[k], 1, U32(0, 0)))

\* wallet_generate_key(&node, keypath, privkeymaster, chaincode).  node is the
\* caller's HDNode before the call; mallocOk and ckdOk say whether malloc and the
\* child derivations succeed.
wallet_generate_key(node, keypath, privkeymaster, chaincode, mallocOk, ckdOk) ==
    IF ~mallocOk
    THEN [ret |-> DBB_ERROR_MEM, node |-> node, derivs |-> <<>>]
    ELSE IF strlens(keypath) < 2 \/ keypath[1] # "m" \/ keypath[2] # "/"
         THEN [ret |-> DBB_ERROR, node |-> node, derivs |-> <<>>]
         ELSE generate_key_loop(
                  [state |-> "key", depth |-> 0, child_num |-> U32(0, 0), fingerprint |-> 0,
                   chain_code |-> [root |-> chaincode, path |-> <<>>],
                   private_key |-> [root |-> privkeymaster, path |-> <<>>]],
                  strtok_all(Drop(keypath, 2), delim), 1, ckdOk, <<>>)

\* ---------------------------------------------------------------- primitives
\* The first byte of sha256_Raw(data): a fixed function of the bytes hashed.
RECURSIVE Sha256Fold(_, _, _)
Sha256Fold(data, k, acc) ==
    IF k > Len(data) THEN acc ELSE Sha256Fold(data, k + 1, (acc * 31 + data[k] + k) % 256)

sha256_Raw0(data) == Sha256Fold(data, 1, 99)

\* bip39_english.h: 2048 distinct lower-case words, here the three letters that
\* spell the index in base 16 over a..p
Letters == <<"a", "b", "c", "d", "e", "f", "g", "h", "i", "j", "k", "l", "m", "n", "o", "p">>

WordCount == 2048

wordlist == [k \in 0..(WordCount - 1) |->
                <<Letters[(k \div 256) + 1], Letters[((k \div 16) % 16) + 1], Letters[(k % 16) + 1]>>]

LetterVal(c) == (CHOOSE k \in 1..16 : Letters[k] = c) - 1

\* the for (;;) search of wallet_mnemonic_check: the index k with wordlist[k] = word,
\* -1 when the list's terminating NULL entry is reached first.  The words spell
\* their index, so the index is read off the word.
WordSearch(word) ==
    IF Len(word) = 3 /\ \A i \in 1..3 : strchr(Letters, word[i])
    THEN LET k == LetterVal(word[1]) * 256 + LetterVal(word[2]) * 16 + LetterVal(word[3])
         IN  IF k < WordCount /\ wordlist[k] = word THEN k ELSE -1
    ELSE -1

MAX_SEED_WORDS == 25
BIP39_MAX_WORD_LEN == 8
SALT_LEN_MAX == 32
CurrentWordSize == 10
OutaddrSize == 256

\* sizeof(mnemonic) and sizeof(msg)
MnemonicBufSize == (BIP39_MAX_WORD_LEN + 1) * MAX_SEED_WORDS + 1

Pow2(n) == IF n = 0 THEN 1 ELSE IF n = 1 THEN 2 ELSE IF n = 2 THEN 4 ELSE IF n = 3 THEN 8
           ELSE IF n = 4 THEN 16 ELSE IF n = 5 THEN 32 ELSE IF n = 6 THEN 64
           ELSE IF n = 7 THEN 128 ELSE IF n = 8 THEN 256 ELSE IF n = 9 THEN 512
           ELSE 1024

\* ---------------------------------------------------------------- mnemonic codec
seps == <<" ", ",">>

\* msg after the strtok() calls of wallet_split_seed: the delimiter that ends each
\* token strtok returned is overwritten with NUL; at most maxTok tokens are
\* returned.  starts: the positions at which the tokens of s start.
strtok_buf(s, starts, maxTok) ==
    [k \in 1..Len(s) |->
        IF /\ strchr(seps, s[k])
           /\ k > 1
           /\ ~strchr(seps, s[k - 1])
           /\ Cardinality({m \in starts : m < k}) <= maxTok
        THEN NUL
        ELSE s[k]]

\* wallet_split_seed(seed_words, message): the count returned and the static msg
\* buffer it leaves behind
wallet_split_seed(message) ==
    LET Split(copy, starts) ==
            [n |-> IF Cardinality(starts) >= MAX_SEED_WORDS THEN MAX_SEED_WORDS - 1
                   ELSE Cardinality(starts),
             msg |-> strtok_buf(copy, starts, MAX_SEED_WORDS)]
        Copy(copy) == Split(copy, TokStarts(copy, seps))
    IN  Copy(Take(message, MnemonicBufSize - 1))

\* bit pos (0 = most significant bit of byte 0) of a byte sequence
BitOf(bytes, pos) == (bytes[(pos \div 8) + 1] \div Pow2(7 - (pos % 8))) % 2

\* the 11-bit word index the encoder reads for word i
WordIdx(bits, i) ==
    LET b(j) == BitOf(bits, i * 11 + j)
    IN  b(0) * 1024 + b(1) * 512 + b(2) * 256 + b(3) * 128 + b(4) * 64 + b(5) * 32
          + b(6) * 16 + b(7) * 8 + b(8) * 4 + b(9) * 2 + b(10)

RECURSIVE from_data_loop(_, _, _)
from_data_loop(bits, i, mlen) ==
    IF i >= mlen
    THEN <<>>
    ELSE wordlist[WordIdx(bits, i)] \o (IF i < mlen - 1 THEN <<" ">> ELSE <<>>)
           \o from_data_loop(bits, i + 1, mlen)

\* wallet_mnemonic_from_data(data, len): ok = FALSE is the NULL return
wallet_mnemonic_from_data(data, len) ==
    IF len % 4 # 0 \/ len < 16 \/ len > 32
    THEN [ok |-> FALSE, str |-> <<>>]
    ELSE [ok |-> TRUE,
          str |-> from_data_loop(Take(data, len) \o <<sha256_Raw0(Take(data, len))>>,
                                 0, (len * 3) \div 4)]

\* the number of characters from position i up to the next space or the end
TokLen(mnemo, i) ==
    LET stop == CHOOSE j \in i..(Len(mnemo) + 1) :
                    /\ (j = Len(mnemo) + 1 \/ mnemo[j] = " ")
                    /\ \A m \in i..(j - 1) : mnemo[m] # " "
    IN  stop - i

\* the bits (as positions in the bits array) that the word found at index k sets,
\* starting at bit bi
WordBits(k, bi) == {bi + ki : ki \in {x \in 0..10 : (k \div Pow2(10 - x)) % 2 = 1}}

\* byte b of the bits array
ByteAt(bits, b) ==
    LET v(p) == IF (8 * b + p) \in bits THEN Pow2(7 - p) ELSE 0
    IN  v(0) + v(1) + v(2) + v(3) + v(4) + v(5) + v(6) + v(7)

RECURSIVE mnemonic_check_loop(_, _, _, _, _)
\* the while (mnemo[i]) loop of wallet_mnemonic_check.  i is the 1-based position,
\* writes the set of indices of current_word written so far.  A token of more
\* than sizeof(current_word) characters returns at j >= sizeof(current_word); any
\* other is written with its terminating zero and looked up.
mnemonic_check_loop(mnemo, i, bi, bits, writes) ==
    LET Found(tl, k) ==
            IF k = -1
            THEN [err |-> TRUE, bi |-> bi, bits |-> bits, writes |-> writes \cup (0..tl)]
            ELSE mnemonic_check_loop(mnemo,
                                     IF i + tl <= Len(mnemo) THEN i + tl + 1 ELSE i + tl,
                                     bi + 11, bits \cup WordBits(k, bi), writes \cup (0..tl))
        Token(tl) ==
            IF tl > CurrentWordSize
            THEN [err |-> TRUE, bi |-> bi, bits |-> bits,
                  writes |-> writes \cup (0..(CurrentWordSize - 1))]
            ELSE Found(tl, WordSearch(SubSeq(mnemo, i, i + tl - 1)))
    IN  IF i > Len(mnemo)
        THEN [err |-> FALSE, bi |-> bi, bits |-> bits, writes |-> writes]
        ELSE Token(TokLen(mnemo, i))

\* chksum of wallet_mnemonic_check: the leading n/3 bits of the hash byte against
\* those of the saved byte
ChecksumOk(n, h0, b32) ==
    IF n = 12 THEN (h0 \div 16) = (b32 \div 16)
    ELSE IF n = 18 THEN (h0 \div 4) = (b32 \div 4)
    ELSE IF n = 24 THEN h0 = b32
    ELSE FALSE

\* the count check of wallet_mnemonic_check
WordCountAccepted(n) == n = 12 \/ n = 18 \/ n = 24

\* wallet_mnemonic_check(mnemo).  isNull: mnemo is the NULL pointer; msg0: the msg
\* buffer of wallet_split_seed before the call; ub: what the build returns once
\* the call has written outside current_word or bits.
wallet_mnemonic_check(isNull, mnemo, msg0, ub) ==
    LET Outside(r) == (\E w \in r.writes : w >= CurrentWordSize)
                          \/ (\E p \in r.bits : p >= 33 * 8)
        Checked(n, msg, r) ==
            [ret |-> IF Outside(r) THEN ub
                     ELSE IF r.err \/ r.bi # n * 11 THEN DBB_ERROR
                     ELSE IF ChecksumOk(n,
                                 sha256_Raw0([b \in 1..((n * 4) \div 3) |-> ByteAt(r.bits, b - 1)]),
                                 ByteAt(r.bits, (n * 4) \div 3))
                     THEN DBB_OK
                     ELSE DBB_ERROR,
             writes |-> r.writes,
             msg |-> msg]
        Counted(sp) ==
            IF ~WordCountAccepted(sp.n)
            THEN [ret |-> DBB_ERROR, writes |-> {}, msg |-> sp.msg]
            ELSE Checked(sp.n, sp.msg, mnemonic_check_loop(mnemo, 1, 0, {}, {}))
    IN  IF isNull
        THEN [ret |-> DBB_ERROR, writes |-> {}, msg |-> msg0]
        ELSE Counted(wallet_split_seed(mnemo))

\* ---------------------------------------------------------------- hex and varint
HexDigits == <<"0", "1", "2", "3", "4", "5", "6", "7", "8", "9", "a", "b", "c", "d", "e", "f">>

\* the value of a hex digit; a character that is none counts 0
HexVal(c) == IF strchr(HexDigits, c) THEN (CHOOSE k \in 1..16 : HexDigits[k] = c) - 1 ELSE 0

\* Offsets and lengths are exact below Cap; a stated value at or above Cap is kept
\* as Cap, which is past the end of every string here (the wrap-around of a 64-bit
\* offset is outside what these integers hold).
Cap == 256 * 256 * 64

Sat(n) == IF n >= Cap THEN Cap ELSE n

\* the character of s at 0-based offset k, "0" past the end
CharAt(s, k) == IF k < Len(s) THEN s[k + 1] ELSE "0"

\* byte b (0-based) of the hex string that starts at 0-based offset k of s
HexByte(s, k, b) == HexVal(CharAt(s, k + 2 * b)) * 16 + HexVal(CharAt(s, k + 2 * b + 1))

RECURSIVE HexLE(_, _, _)
\* the little-endian value of the nbytes bytes of hex at offset k of s
HexLE(s, k, nbytes) ==
    IF nbytes = 0 THEN 0
    ELSE Sat(HexByte(s, k, 0) + 256 * HexLE(s, k + 2, nbytes - 1))

\* utils_varint_to_uint64(s + k, &val): a CompactSize integer in hex; len is the
\* number of characters it takes
utils_varint_to_uint64(s, k) ==
    LET p == <<CharAt(s, k), CharAt(s, k + 1)>>
    IN  IF p = <<"f", "f">> THEN [len |-> 18, val |-> HexLE(s, k + 2, 8)]
        ELSE IF p = <<"f", "e">> THEN [len |-> 10, val |-> HexLE(s, k + 2, 4)]
        ELSE IF p = <<"f", "d">> THEN [len |-> 6, val |-> HexLE(s, k + 2, 2)]
        ELSE [len |-> 2, val |-> HexByte(s, k, 0)]

\* snprintf(buf, size, "%.*s", prec, s + k): at most prec characters of s from
\* offset k, cut to size - 1
SnprintfPrec(s, k, prec, size) == Take(Drop(s, k), IF prec < size - 1 THEN prec ELSE size - 1)

\* ---------------------------------------------------------------- wallet_get_outputs
RECURSIVE get_outputs_inputs(_, _, _, _)
\* the loop over the inputs: the offset after them, or -1 for the error return
get_outputs_inputs(tx, tx_len, idx, left) ==
    IF left = 0
    THEN idx
    ELSE LET i1 == idx + 64 + 8
         IN  IF tx_len < i1 + 16
             THEN -1
             ELSE LET v == utils_varint_to_uint64(tx, i1)
                  IN  get_outputs_inputs(tx, tx_len, Sat(i1 + v.len + v.val * 2 + 8), left - 1)

RECURSIVE get_outputs_outputs(_, _, _, _)
\* the loop over the outputs: the offset after them, or -1 for the error return
get_outputs_outputs(tx, tx_len, idx, left) ==
    IF left = 0
    THEN idx
    ELSE LET i1 == idx + 16
         IN  IF tx_len < i1 + 16
             THEN -1
             ELSE LET v == utils_varint_to_uint64(tx, i1)
                  IN  get_outputs_outputs(tx, tx_len, Sat(i1 + v.len + v.val * 2), left - 1)

\* wallet_get_outputs(tx, tx_len, outputs, outputs_len).  outputs0 is the caller's
\* buffer before the call.
wallet_get_outputs(tx, tx_len, outputs0, outputs_len) ==
    LET bad == [ret |-> DBB_ERROR, outputs |-> outputs0, id_start |-> 0, idx |-> 0]
        Outs(id_start, idx) ==
            IF idx = -1
            THEN bad
            ELSE [ret |-> DBB_OK,
                  outputs |-> SnprintfPrec(tx, id_start, idx - id_start, outputs_len),
                  id_start |-> id_start,
                  idx |-> idx]
        OutCount(id_start, vout) ==
            Outs(id_start, get_outputs_outputs(tx, tx_len, id_start + vout.len, vout.val))
        Ins(id_start) ==
            IF id_start = -1 \/ tx_len < id_start + 16
            THEN bad
            ELSE OutCount(id_start, utils_varint_to_uint64(tx, id_start))
        InCount(vin) == Ins(get_outputs_inputs(tx, tx_len, 8 + vin.len, vin.val))
    IN  IF tx_len < 8 + 16
        THEN bad
        ELSE InCount(utils_varint_to_uint64(tx, 8))

\* ---------------------------------------------------------------- stored master
\* MEM_PAGE_ERASE: what a storage page holds before the wallet is seeded
MEM_PAGE_ERASE == "erased"

KeyNames == <<"k1", "k2", "k3", "k4">>
ChainNames == <<"c1", "c2", "c3", "c4">>

\* wallet_seeded() over the two stored pages
wallet_seeded(master, chaincode) ==
    IF master = MEM_PAGE_ERASE \/ chaincode = MEM_PAGE_ERASE THEN DBB_ERROR ELSE DBB_OK

\* memory_master(key) / memory_chaincode(key): the page after the write, which
\* takes effect when memOk
memory_write(page, value, memOk) == IF memOk THEN value ELSE page

\* ---------------------------------------------------------------- addresses
\* the number of the key a page holds, 0 for an erased page
KeyIndex(root) == IF root = MEM_PAGE_ERASE THEN 0 ELSE CHOOSE k \in 1..4 : KeyNames[k] = root

\* utils_uint8_to_hex(pubkeyhash, 20) of the key: 40 hex characters fixed by the
\* key (HASH160 of its compressed public key)
PubkeyHashHex(private_key) ==
    LET n == Len(private_key.path)
        last == IF n = 0 THEN 0 ELSE private_key.path[n].lo
    IN  Rep(HexDigits[KeyIndex(private_key.root) + 1], 38)
            \o <<HexDigits[(n % 16) + 1], HexDigits[(last % 16) + 1]>>

\* wallet_get_address(pub_key, 0, addr, 36): the 34 characters of the Base58Check
\* address of the key
AddressOf(private_key) ==
    <<"1">> \o Rep(Letters[KeyIndex(private_key.root) + 1], 32)
            \o <<Letters[(Len(private_key.path) % 16) + 1]>>

\* ---------------------------------------------------------------- wallet_deserialize_output
\* the return after the loop, were a single output not required for success
\* without a change output
verdict_any_count(change_addr_present, n_cnt) ==
    IF change_addr_present > 0 \/ n_cnt >= 1 THEN DBB_OK ELSE DBB_ERROR

\* the return after the loop
deserialize_output_verdict(change_addr_present, n_cnt) ==
    IF change_addr_present > 0 \/ n_cnt = 1 THEN DBB_OK ELSE DBB_ERROR

RECURSIVE deserialize_output_loop(_, _, _, _, _, _, _, _)
\* the for (j = 0; j < n_cnt; j++) loop.  st holds idx, the outputs left, the
\* HDNode, change_addr_present, and what was handed to commander_fill_json_array
\* (emitted) and captured as outaddr (scripts) so far.
deserialize_output_loop(outputs, keypath, master, chaincode, mallocOk, ckdOk, n_cnt, st) ==
    LET Again(st2) ==
            deserialize_output_loop(outputs, keypath, master, chaincode, mallocOk, ckdOk,
                                    n_cnt, st2)
        Output(outValue, outaddr, i3, g) ==
            IF strlens(keypath) = 0
            THEN Again([st EXCEPT !.idx = i3, !.left = @ - 1,
                                  !.emitted = Append(@, [value |-> outValue, script |-> outaddr]),
                                  !.scripts = Append(@, outaddr)])
            ELSE IF g.ret # DBB_OK
            THEN [ret |-> DBB_ERROR, node |-> ZeroNode,
                  emitted |-> st.emitted, scripts |-> Append(st.scripts, outaddr),
                  change |-> st.change, n_cnt |-> n_cnt]
            ELSE IF strstr(outaddr, PubkeyHashHex(g.node.private_key))
            THEN Again([st EXCEPT !.idx = i3, !.left = @ - 1, !.node = g.node,
                                  !.change = @ + 1,
                                  !.scripts = Append(@, outaddr)])
            ELSE Again([st EXCEPT !.idx = i3, !.left = @ - 1, !.node = g.node,
                                  !.emitted = Append(@, [value |-> outValue, script |-> outaddr]),
                                  !.scripts = Append(@, outaddr)])
        Script(outValue, i2, v) ==
            Output(outValue,
                   SnprintfPrec(outputs, i2 + v.len, v.val * 2, OutaddrSize),
                   Sat(i2 + v.len + v.val * 2),
                   wallet_generate_key(st.node, keypath, master, chaincode, mallocOk, ckdOk))
    IN  IF st.left = 0
        THEN [ret |-> deserialize_output_verdict(st.change, n_cnt), node |-> ZeroNode,
              emitted |-> st.emitted, scripts |-> st.scripts, change |-> st.change,
              n_cnt |-> n_cnt]
        ELSE IF strlens(outputs) < st.idx + 16 + 16
        THEN [ret |-> DBB_ERROR, node |-> st.node,
              emitted |-> st.emitted, scripts |-> st.scripts, change |-> st.change,
              n_cnt |-> n_cnt]
        ELSE Script(HexLE(outputs, st.idx, 8), st.idx + 16,
                    utils_varint_to_uint64(outputs, st.idx + 16))

\* wallet_deserialize_output(outputs, keypath)
wallet_deserialize_output(outputs, keypath, master, chaincode, mallocOk, ckdOk) ==
    LET Loop(v) ==
            deserialize_output_loop(outputs, keypath, master, chaincode,
                mallocOk, ckdOk, v.val,
                [idx |-> v.len, left |-> v.val, node |-> UninitNode, change |-> 0,
                 emitted |-> <<>>, scripts |-> <<>>])
    IN  IF wallet_seeded(master, chaincode) # DBB_OK \/ strlens(outputs) < 16
        THEN [ret |-> DBB_ERROR, node |-> UninitNode, emitted |-> <<>>,
              scripts |-> <<>>, change |-> 0, n_cnt |-> 0]
        ELSE Loop(utils_varint_to_uint64(outputs, 0))

\* ---------------------------------------------------------------- seeding
SaltPrefix == <<"m", "n", "e", "m", "o", "n", "i", "c">>

\* pbkdf2_hmac_sha512(mnemo, salt): the seed, one of four values fixed by its inputs
Pbkdf2(mnemo, salt) == 1 + ((Len(mnemo) + 3 * Len(salt)) % 4)

\* wallet_mnemonic_to_seed(mnemo, passphrase, s, 0); hasPass: passphrase is not NULL.
\* Gives the seed and the static salt buffer left behind.
wallet_mnemonic_to_seed(mnemo, hasPass, passphrase) ==
    LET buf == SaltPrefix \o (IF hasPass THEN Take(passphrase, SALT_LEN_MAX - 1) ELSE <<>>)
    IN  [seed |-> <<Pbkdf2(mnemo, buf)>>, salt |-> buf]

\* the module's static buffers after clear_static_variables(); msg and salt, the
\* function-level statics, are not among them
clear_static_variables(st) == [st EXCEPT !.mnemonic = <<>>, !.seed = <<>>, !.rand_data_32 = <<>>]

\* hdnode_from_seed(seed, 64, &node)
hdnode_from_seed(seedbuf) ==
    [state |-> "key", depth |-> 0, child_num |-> U32(0, 0), fingerprint |-> 0,
     chain_code |-> [root |-> ChainNames[seedbuf[1]], path |-> <<>>],
     private_key |-> [root |-> KeyNames[seedbuf[1]], path |-> <<>>]]

\* the part of the seeding entry points from the filled node to the exit label:
\* store the node's key and chain code, then ask wallet_seeded()
store_master(node, mem, memOk) ==
    LET m2 == [master |-> memory_write(mem.master, node.private_key.root, memOk),
               chaincode |-> memory_write(mem.chaincode, node.chain_code.root, memOk)]
    IN  [mem |-> m2,
         ret |-> IF wallet_seeded(m2.master, m2.chaincode) # DBB_OK THEN DBB_ERROR_MEM
                 ELSE DBB_OK]

\* wallet_master_from_mnemonic(mnemo, salt).  isNull: mnemo is NULL; st: the static
\* buffers; mem: the stored pages; env: what the collaborators do (rngOk, rnd,
\* fromSeedOk, memOk, ub).
wallet_master_from_mnemonic(isNull, mnemo, salt, st, mem, env) ==
    LET exit(ret, s, m) == [ret |-> ret, node |-> ZeroNode,
                            st |-> clear_static_variables(s), mem |-> m]
        stored(s, sm) == exit(sm.ret, s, sm.mem)
        seeded(s) ==
            IF ~env.fromSeedOk
            THEN exit(DBB_ERROR, s, mem)
            ELSE stored(s, store_master(hdnode_from_seed(s.seed), mem, env.memOk))
        to_seed(s, ts) == seeded([s EXCEPT !.seed = ts.seed, !.salt = ts.salt])
        checked(s, chk) ==
            IF chk.ret = DBB_ERROR
            THEN exit(DBB_ERROR, [s EXCEPT !.msg = chk.msg], mem)
            ELSE to_seed([s EXCEPT !.msg = chk.msg],
                         wallet_mnemonic_to_seed(s.mnemonic, strlens(salt) # 0, salt))
        copied(s) == checked(s, wallet_mnemonic_check(FALSE, s.mnemonic, s.msg, env.ub))
        cleared(st1) ==
            IF isNull
            THEN IF ~env.rngOk
                 THEN exit(DBB_ERROR_MEM, st1, mem)
                 ELSE seeded([st1 EXCEPT !.seed = <<env.rnd>>])
            ELSE IF strlens(mnemo) > MnemonicBufSize
            THEN exit(DBB_ERROR, st1, mem)
            ELSE copied([st1 EXCEPT !.mnemonic = Take(mnemo, MnemonicBufSize - 1)])
    IN  cleared(clear_static_variables(st))

\* hdnode_deserialize(src, &node): a base58 string is taken when it starts with
\* "xprv"; its fifth character names the key
XprvPrefix == <<"x", "p", "r", "v">>

hdnode_deserialize_ok(src) == Take(src, 4) = XprvPrefix /\ strchr(<<"1", "2", "3", "4">>, src[5])

hdnode_deserialize(src) ==
    LET r == CHOOSE k \in 1..4 : HexDigits[k + 1] = src[5]
    IN  [state |-> "key", depth |-> 0, child_num |-> U32(0, 0), fingerprint |-> 0,
         chain_code |-> [root |-> ChainNames[r], path |-> <<>>],
         private_key |-> [root |-> KeyNames[r], path |-> <<>>]]

\* wallet_master_from_xpriv(src)
wallet_master_from_xpriv(src, st, mem, env) ==
    LET stored(sm) == [ret |-> sm.ret, node |-> ZeroNode,
                       st |-> clear_static_variables(st), mem |-> sm.mem]
    IN  IF strlens(src) # 112 - 1
        THEN [ret |-> DBB_ERROR, node |-> UninitNode, st |-> st, mem |-> mem]
        ELSE IF ~hdnode_deserialize_ok(src)
        THEN [ret |-> DBB_ERROR, node |-> ZeroNode, st |-> clear_static_variables(st),
              mem |-> mem]
        ELSE stored(store_master(hdnode_deserialize(src), mem, env.memOk))

\* ---------------------------------------------------------------- signer
\* commander_clear_report(); commander_fill_report(cmd, NULL, err): the report
\* then holds the one error
clear_and_fill_report(err) == <<err>>

\* the err label of wallet_sign and wallet_check_pubkey
sign_err(err, steps, st) ==
    [ret |-> DBB_ERROR, node |-> ZeroNode, report |-> clear_and_fill_report(err),
     steps |-> steps, st |-> clear_static_variables(st)]

\* wallet_sign, were the seeded check made before the length check
wallet_sign_seeded_first(message, keypath, to_hash, report0, st, mem, env) ==
    LET derived(g) ==
            IF g.ret # DBB_OK
            THEN sign_err(DBB_ERR_KEY_CHILD, <<"hash_len", "seeded", "generate_key">>, st)
            ELSE IF ~env.eccOk
            THEN sign_err(DBB_ERR_SIGN_ECCLIB,
                          <<"hash_len", "seeded", "generate_key", "ecc_sign">>, st)
            ELSE [ret |-> env.sigRet,
                  node |-> ZeroNode,
                  report |-> Append(report0, "signature"),
                  steps |-> <<"hash_len", "seeded", "generate_key", "ecc_sign",
                              "fill_signature">>,
                  st |-> clear_static_variables(st)]
    IN  IF wallet_seeded(mem.master, mem.chaincode) # DBB_OK
        THEN sign_err(DBB_ERR_KEY_MASTER, <<"seeded">>, st)
        ELSE IF ~to_hash /\ strlens(message) # 32 * 2
        THEN sign_err(DBB_ERR_SIGN_HASH_LEN, <<"seeded", "hash_len">>, st)
        ELSE derived(wallet_generate_key(UninitNode, keypath, mem.master, mem.chaincode,
                                         env.mallocOk, env.ckdOk))

\* wallet_sign(message, keypath, to_hash).  report0: the report before the call;
\* steps: the steps executed, in order; env: mallocOk, ckdOk, eccOk, and sigRet, the
\* return value of commander_fill_signature_array.
wallet_sign(message, keypath, to_hash, report0, st, mem, env) ==
    LET derived(g) ==
            IF g.ret # DBB_OK
            THEN sign_err(DBB_ERR_KEY_CHILD, <<"hash_len", "seeded", "generate_key">>, st)
            ELSE IF ~env.eccOk
            THEN sign_err(DBB_ERR_SIGN_ECCLIB,
                          <<"hash_len", "seeded", "generate_key", "ecc_sign">>, st)
            ELSE [ret |-> env.sigRet,
                  node |-> ZeroNode,
                  report |-> Append(report0, "signature"),
                  steps |-> <<"hash_len", "seeded", "generate_key", "ecc_sign",
                              "fill_signature">>,
                  st |-> clear_static_variables(st)]
    IN  IF ~to_hash /\ strlens(message) # 32 * 2
        THEN sign_err(DBB_ERR_SIGN_HASH_LEN, <<"hash_len">>, st)
        ELSE IF wallet_seeded(mem.master, mem.chaincode) # DBB_OK
        THEN sign_err(DBB_ERR_KEY_MASTER, <<"hash_len", "seeded">>, st)
        ELSE derived(wallet_generate_key(UninitNode, keypath, mem.master, mem.chaincode,
                                         env.mallocOk, env.ckdOk))

\* wallet_check_pubkey(address, keypath)
wallet_check_pubkey(address, keypath, report0, st, mem, env) ==
    LET derived(g) ==
            IF g.ret # DBB_OK
            THEN sign_err(DBB_ERR_KEY_CHILD, <<"addr_len", "seeded", "generate_key">>, st)
            ELSE [ret |-> IF address # AddressOf(g.node.private_key) THEN DBB_KEY_ABSENT
                          ELSE DBB_KEY_PRESENT,
                  node |-> ZeroNode,
                  report |-> report0,
                  steps |-> <<"addr_len", "seeded", "generate_key", "get_address">>,
                  st |-> clear_static_variables(st)]
    IN  IF strlens(address) # 34
        THEN sign_err(DBB_ERR_SIGN_ADDR_LEN, <<"addr_len">>, st)
        ELSE IF wallet_seeded(mem.master, mem.chaincode) # DBB_OK
        THEN sign_err(DBB_ERR_KEY_MASTER, <<"addr_len", "seeded">>, st)
        ELSE derived(wallet_generate_key(UninitNode, keypath, mem.master, mem.chaincode,
                                         env.mallocOk, env.ckdOk))

\* wallet_report_xpriv(keypath, xpriv) and wallet_report_xpub(keypath, xpub): out is
\* the caller's buffer, written when the wallet is seeded and the key derived
wallet_report_xkey(kind, keypath, out0, st, mem, env) ==
    LET derived(g) ==
            [out |-> IF g.ret = DBB_OK THEN <<kind, g.node.private_key>> ELSE out0,
             node |-> ZeroNode,
             st |-> clear_static_variables(st)]
    IN  IF wallet_seeded(mem.master, mem.chaincode) # DBB_OK
        THEN [out |-> out0, node |-> ZeroNode, st |-> clear_static_variables(st)]
        ELSE derived(wallet_generate_key(UninitNode, keypath, mem.master, mem.chaincode,
                                         env.mallocOk, env.ckdOk))

\* ---------------------------------------------------------------- inputs
KP_empty == <<>>
KP_root == <<"m", "/">>
KP_0 == <<"m", "/", "0">>
KP_change == <<"m", "/", "4", "4", "'", "/", "0">>
KP_markers == <<"m", "/", "1", "h", "/", "2", "H", "/", "3", "p">>
KP_xyz == <<"m", "/", "0", "/", "x", "y", "z">>
KP_mid == <<"m", "/", "1", "'", "2">>
KP_nom == <<"x", "/", "0", "'">>
KP_m == <<"m">>
KP_u32max == <<"m", "/", "4", "2", "9", "4", "9", "6", "7", "2", "9", "5">>
KP_u32over == <<"m", "/", "4", "2", "9", "4", "9", "6", "7", "2", "9", "6">>
KP_h_max == <<"m", "/", "2", "1", "4", "7", "4", "8", "3", "6", "4", "7", "'">>
KP_h_over == <<"m", "/", "2", "1", "4", "7", "4", "8", "3", "6", "4", "8", "'">>
KP_plain_high == <<"m", "/", "2", "1", "4", "7", "4", "8", "3", "6", "4", "8">>
KP_huge == <<"m", "/", "9", "9", "9", "9", "9", "9", "9", "9", "9", "9", "9", "9", "9",
             "9", "9", "9", "9", "9", "9", "9", "9", "9", "9">>

\* the key paths handed to wallet_generate_key
Keypaths ==
    {KP_empty, KP_root, KP_0, KP_change, KP_markers, KP_xyz, KP_mid, KP_nom, KP_m,
     KP_u32max, KP_u32over, KP_h_max, KP_h_over, KP_plain_high, KP_huge}

\* the key paths handed to the entry points that derive one key
CallKeypaths == {KP_empty, KP_root, KP_change, KP_xyz}

\* messages of 64 - 2 * d characters for d up to MaxShort, and of 66
MaxShort == 1
Messages == {Rep("a", 64 - 2 * d) : d \in 0..MaxShort} \cup {Rep("a", 66)}

Passphrases == {<<>>, <<"p", "w">>}

\* entropy: byte i of pattern p is (i * p) % 256; lengths around the allowed ones
MaxPattern == 1
EntropyLens == {12, 16, 20, 24, 28, 32}
Entropy(pat, len) == [i \in 1..len |-> (i * 37 * pat) % 256]

\* a 12-word phrase the encoder makes
Valid12 == wallet_mnemonic_from_data(Entropy(1, 16), 16).str

\* the position of the first space of m, Len(m) + 1 when it has none
FirstSpace(m) ==
    CHOOSE j \in 1..(Len(m) + 1) :
        (j = Len(m) + 1 \/ m[j] = " ") /\ \A k \in 1..(j - 1) : m[k] # " "

\* m with its first word replaced by w
ReplaceFirstWord(m, w) == w \o Drop(m, FirstSpace(m) - 1)

\* the longest token tried in place of a word
MaxTokLen == 11

MnemoVariants ==
    {[kind |-> k, n |-> 0] :
        k \in {"plain", "comma_first", "comma_all", "badword", "double_space"}}
        \cup {[kind |-> "long", n |-> n] : n \in 9..MaxTokLen}

\* the phrase handed to wallet_mnemonic_check for base phrase m
Variant(m, v) ==
    IF v.kind = "plain" THEN m
    ELSE IF v.kind = "comma_first"
    THEN [k \in 1..Len(m) |-> IF k = FirstSpace(m) THEN "," ELSE m[k]]
    ELSE IF v.kind = "comma_all"
    THEN [k \in 1..Len(m) |-> IF m[k] = " " THEN "," ELSE m[k]]
    ELSE IF v.kind = "badword" THEN ReplaceFirstWord(m, <<"z", "z", "z">>)
    ELSE IF v.kind = "double_space"
    THEN Take(m, FirstSpace(m)) \o <<" ">> \o Drop(m, FirstSpace(m))
    ELSE ReplaceFirstWord(m, Rep("a", v.n))

\* serialized extended keys: 111 characters, and one that is too short
XprivInputs ==
    {XprvPrefix \o Rep("1", 107), XprvPrefix \o Rep("2", 107),
     <<"x", "p", "u", "b">> \o Rep("1", 107), XprvPrefix \o Rep("1", 30)}

\* transactions
Version == <<"0", "1", "0", "0", "0", "0", "0", "0">>
Sequence == <<"f", "f", "f", "f", "f", "f", "f", "f">>
Locktime == <<"0", "0", "0", "0", "0", "0", "0", "0">>
PrevIndex == <<"0", "0", "0", "0", "0", "0", "0", "0">>
OutValueHex == <<"e", "8", "0", "3", "0", "0", "0", "0", "0", "0", "0", "0", "0", "0", "0", "0">>
P2pkhHead == <<"7", "6", "a", "9", "1", "4">>
P2pkhTail == <<"8", "8", "a", "c">>
ScriptSig == <<"a", "b", "c", "d">>

\* the two hex characters of a byte
HexByteStr(n) == <<HexDigits[(n \div 16) + 1], HexDigits[(n % 16) + 1]>>

ScriptKinds == {"other", "change", "longtail"}

\* a script of each kind, h being the hex of the change key's HASH160: pay to
\* another hash, pay to the change hash, and a 128-byte script that ends with the
\* change hash
ScriptOf(kind, h) ==
    IF kind = "other" THEN P2pkhHead \o Rep("9", 40) \o P2pkhTail
    ELSE IF kind = "change" THEN P2pkhHead \o h \o P2pkhTail
    ELSE Rep("5", 216) \o h

\* one serialized output: value, script length, script
OutputHex(script) == OutValueHex \o HexByteStr(Len(script) \div 2) \o script

RECURSIVE Concat(_)
Concat(ss) == IF ss = <<>> THEN <<>> ELSE Head(ss) \o Concat(Tail(ss))

\* the outputs part of a transaction: the count stated, then the outputs
OutputsHex(stated, scripts) ==
    HexByteStr(stated) \o Concat([j \in 1..Len(scripts) |-> OutputHex(scripts[j])])

\* a transaction with nin inputs
TxHex(nin, stated, scripts) ==
    Version \o HexByteStr(nin)
        \o Concat([j \in 1..nin |-> Rep("a", 64) \o PrevIndex \o HexByteStr(Len(ScriptSig) \div 2)
                                       \o ScriptSig \o Sequence])
        \o OutputsHex(stated, scripts) \o Locktime

MaxOutputs == 2
MaxInputs == 1
MaxExtra == 1

\* the lists of at most MaxOutputs script kinds
KindLists == UNION {[1..k -> ScriptKinds] : k \in 0..MaxOutputs}

\* how many characters are cut from the end of a string handed in
Cuts == {0, 4, 12, 30}

\* s without its last c characters
CutEnd(s, c) == Take(s, Len(s) - c)

\* sizes of the caller's outputs buffer
OutputsLens == {2048, 64}

\* ---------------------------------------------------------------- state
VARIABLES
    mem,    \* the stored master key and chain code pages
    st,     \* the static buffers: mnemonic, seed, rand_data_32 (module level), msg
            \* (wallet_split_seed), salt (wallet_mnemonic_to_seed), mnemo
            \* (wallet_mnemonic_from_data)
    call    \* the last call: entry point, arguments, return value, the caller's
            \* HDNode as the call left it, the report, the steps run, other results

vars == <<mem, st, call>>

NoAux == [none |-> TRUE]

Call(op, args, ret, node, report, steps, aux) ==
    [op |-> op, args |-> args, ret |-> ret, node |-> node, report |-> report,
     steps |-> steps, aux |-> aux]

\* what the report holds before a call
Report0 == <<"earlier">>

\* between calls
Idle == Call("idle", NoAux, DBB_OK, UninitNode, Report0, <<>>, NoAux)

Init ==
    /\ mem = [master |-> MEM_PAGE_ERASE, chaincode |-> MEM_PAGE_ERASE]
    /\ st = [mnemonic |-> <<>>, seed |-> <<>>, rand_data_32 |-> <<>>, msg |-> <<>>,
             salt |-> <<>>, mnemo |-> <<>>]
    /\ call = Idle

\* no call is in progress: the caller may make the next one
Ready == call.op = "idle"

\* the caller has taken what the last call returned and reported
Return ==
    /\ ~Ready
    /\ call' = Idle
    /\ UNCHANGED <<mem, st>>

\* ---------------------------------------------------------------- seeding actions
MasterFromMnemonic ==
    /\ Ready
    /\ \E src \in {"null", "plain", "comma_first", "badword"}, salt \in Passphrases,
       rngOk \in BOOLEAN, fromSeedOk \in BOOLEAN, memOk \in BOOLEAN :
        LET Returned(r) ==
                /\ mem' = r.mem
                /\ st' = r.st
                /\ call' = Call("wallet_master_from_mnemonic", [src |-> src, salt |-> salt],
                                r.ret, r.node, Report0, <<>>, NoAux)
        IN  Returned(wallet_master_from_mnemonic(src = "null",
                        IF src = "null" THEN <<>> ELSE Variant(Valid12, [kind |-> src, n |-> 0]),
                        salt, st, mem,
                        [rngOk |-> rngOk, rnd |-> 3, fromSeedOk |-> fromSeedOk,
                         memOk |-> memOk, ub |-> DBB_ERROR]))

MasterFromXpriv ==
    /\ Ready
    /\ \E src \in XprivInputs, memOk \in BOOLEAN :
        LET Returned(r) ==
                /\ mem' = r.mem
                /\ st' = r.st
                /\ call' = Call("wallet_master_from_xpriv", [src |-> src],
                                r.ret, r.node, Report0, <<>>, NoAux)
        IN  Returned(wallet_master_from_xpriv(src, st, mem, [memOk |-> memOk]))

\* ---------------------------------------------------------------- key actions
GenerateKey ==
    /\ Ready
    /\ \E keypath \in Keypaths, mallocOk \in BOOLEAN, ckdOk \in BOOLEAN :
        LET Returned(r) ==
                /\ call' = Call("wallet_generate_key",
                                [keypath |-> keypath, mallocOk |-> mallocOk, ckdOk |-> ckdOk],
                                r.ret, r.node, Report0, <<>>, [derivs |-> r.derivs])
                /\ UNCHANGED <<mem, st>>
        IN  Returned(wallet_generate_key(UninitNode, keypath, mem.master, mem.chaincode,
                                         mallocOk, ckdOk))

Sign ==
    /\ Ready
    /\ \E message \in Messages, keypath \in CallKeypaths, to_hash \in BOOLEAN,
       ckdOk \in BOOLEAN, eccOk \in BOOLEAN, sigRet \in {DBB_OK, DBB_ERROR} :
        LET Returned(env, r) ==
                /\ st' = r.st
                /\ call' = Call("wallet_sign",
                                [message |-> message, keypath |-> keypath,
                                 to_hash |-> to_hash, seeded |-> wallet_seeded(mem.master, mem.chaincode),
                                 env |-> env],
                                r.ret, r.node, r.report, r.steps, NoAux)
                /\ UNCHANGED mem
            Called(env) ==
                Returned(env, wallet_sign(message, keypath, to_hash, Report0, st, mem, env))
        IN  Called([mallocOk |-> TRUE, ckdOk |-> ckdOk, eccOk |-> eccOk, sigRet |-> sigRet])

CheckPubkey ==
    /\ Ready
    /\ \E address \in {AddressOf([root |-> KeyNames[1], path |-> <<>>]), Rep("1", 33)},
       keypath \in CallKeypaths, ckdOk \in BOOLEAN :
        LET Returned(env, r) ==
                /\ st' = r.st
                /\ call' = Call("wallet_check_pubkey",
                                [address |-> address, keypath |-> keypath, env |-> env],
                                r.ret, r.node, r.report, r.steps, NoAux)
                /\ UNCHANGED mem
            Called(env) ==
                Returned(env, wallet_check_pubkey(address, keypath, Report0, st, mem, env))
        IN  Called([mallocOk |-> TRUE, ckdOk |-> ckdOk])

ReportXpriv ==
    /\ Ready
    /\ \E keypath \in CallKeypaths, ckdOk \in BOOLEAN :
        LET Returned(r) ==
                /\ st' = r.st
                /\ call' = Call("wallet_report_xpriv", [keypath |-> keypath, ckdOk |-> ckdOk],
                                DBB_OK, r.node, Report0, <<>>, [out |-> r.out])
                /\ UNCHANGED mem
        IN  Returned(wallet_report_xkey("xpriv", keypath, <<>>, st,
                                        mem, [mallocOk |-> TRUE, ckdOk |-> ckdOk]))

ReportXpub ==
    /\ Ready
    /\ \E keypath \in CallKeypaths, ckdOk \in BOOLEAN :
        LET Returned(r) ==
                /\ st' = r.st
                /\ call' = Call("wallet_report_xpub", [keypath |-> keypath, ckdOk |-> ckdOk],
                                DBB_OK, r.node, Report0, <<>>, [out |-> r.out])
                /\ UNCHANGED mem
        IN  Returned(wallet_report_xkey("xpub", keypath, <<>>, st,
                                        mem, [mallocOk |-> TRUE, ckdOk |-> ckdOk]))

\* ---------------------------------------------------------------- mnemonic actions
MnemonicFromData ==
    /\ Ready
    /\ \E pat \in 0..MaxPattern, len \in EntropyLens :
        LET Returned(r) ==
                /\ st' = [st EXCEPT !.mnemo = IF r.ok THEN r.str ELSE @]
                /\ call' = Call("wallet_mnemonic_from_data", [pat |-> pat, len |-> len],
                                IF r.ok THEN DBB_OK ELSE DBB_ERROR, UninitNode, Report0, <<>>,
                                [str |-> IF r.ok THEN r.str ELSE <<>>])
                /\ UNCHANGED mem
        IN  Returned(wallet_mnemonic_from_data(Entropy(pat, len), len))

\* wallet_mnemonic_check on the phrase the encoder left in its static buffer, as it
\* is or changed, or on NULL.  The build's choice ub matters for the tokens that
\* reach the end of current_word.
MnemonicCheck ==
    /\ Ready
    /\ \E v \in MnemoVariants \cup {[kind |-> "null", n |-> 0]}, ub \in {DBB_ERROR, DBB_OK} :
        /\ st.mnemo # <<>>
        /\ ub = DBB_OK => v.kind = "long"
        /\ LET Returned(mnemo, r) ==
                   /\ st' = [st EXCEPT !.msg = r.msg]
                   /\ call' = Call("wallet_mnemonic_check",
                                   [variant |-> v, base |-> st.mnemo, mnemo |-> mnemo],
                                   r.ret, UninitNode, Report0, <<>>, [writes |-> r.writes])
               Called(mnemo) ==
                   Returned(mnemo, wallet_mnemonic_check(v.kind = "null", mnemo, st.msg, ub))
           IN  Called(IF v.kind = "null" THEN <<>> ELSE Variant(st.mnemo, v))
        /\ UNCHANGED mem

\* ---------------------------------------------------------------- transaction actions
\* the hex of the HASH160 of the key at KP_change under what the pages hold
ChangeHash ==
    PubkeyHashHex(wallet_generate_key(UninitNode, KP_change, mem.master, mem.chaincode,
                                      TRUE, TRUE).node.private_key)

\* the scripts of the kinds listed, for change hash h
ScriptsOf(kinds, h) == [j \in 1..Len(kinds) |-> ScriptOf(kinds[j], h)]

GetOutputs ==
    /\ Ready
    /\ \E nin \in 0..MaxInputs, kinds \in KindLists, extra \in 0..MaxExtra, cut \in Cuts,
       outputs_len \in OutputsLens :
        LET Returned(tx, r) ==
                /\ call' = Call("wallet_get_outputs",
                                [tx |-> tx, outputs_len |-> outputs_len, nin |-> nin,
                                 stated |-> Len(kinds) + extra, given |-> Len(kinds),
                                 cut |-> cut],
                                r.ret, UninitNode, Report0, <<>>,
                                [outputs |-> r.outputs, id_start |-> r.id_start,
                                 idx |-> r.idx])
                /\ UNCHANGED <<mem, st>>
            Called(tx) == Returned(tx, wallet_get_outputs(tx, Len(tx), <<>>, outputs_len))
        IN  Called(CutEnd(TxHex(nin, Len(kinds) + extra, ScriptsOf(kinds, ChangeHash)), cut))

DeserializeOutput ==
    /\ Ready
    /\ \E kinds \in KindLists, extra \in 0..MaxExtra, cut \in Cuts,
       keypath \in {KP_empty, KP_change, KP_xyz}, ckdOk \in BOOLEAN :
        LET Returned(scripts, outputs, r) ==
                /\ call' = Call("wallet_deserialize_output",
                                [outputs |-> outputs, keypath |-> keypath, ckdOk |-> ckdOk,
                                 seeded |-> wallet_seeded(mem.master, mem.chaincode),
                                 stated |-> Len(kinds) + extra, scripts |-> scripts,
                                 kinds |-> kinds, cut |-> cut],
                                r.ret, r.node, Report0 \o r.emitted, <<>>,
                                [emitted |-> r.emitted, outaddr |-> r.scripts,
                                 change |-> r.change, n_cnt |-> r.n_cnt])
                /\ UNCHANGED <<mem, st>>
            Called(scripts, outputs) ==
                Returned(scripts, outputs,
                         wallet_deserialize_output(outputs, keypath, mem.master,
                                                   mem.chaincode, TRUE, ckdOk))
            Built(scripts) ==
                Called(scripts, CutEnd(OutputsHex(Len(kinds) + extra, scripts), cut))
        IN  Built(ScriptsOf(kinds, ChangeHash))

\* ---------------------------------------------------------------- specifications
NextSeed == MasterFromMnemonic \/ MasterFromXpriv
NextKey == GenerateKey \/ Sign \/ CheckPubkey \/ ReportXpriv \/ ReportXpub
NextMnemo == MnemonicFromData \/ MnemonicCheck
NextTx == GetOutputs \/ DeserializeOutput

Next == NextSeed \/ NextKey \/ NextMnemo \/ NextTx \/ Return

Spec == Init /\ [][Next]_vars

\* the seeding entry points and the ones that derive a key from the stored master
SpecKeys == Init /\ [][NextSeed \/ NextKey \/ Return]_vars

\* the mnemonic codec alone
SpecMnemo == Init /\ [][NextMnemo \/ Return]_vars

\* seeding from an extended key, and the transaction-output parser
SpecTx == Init /\ [][MasterFromXpriv \/ NextTx \/ Return]_vars

\* ---------------------------------------------------------------- properties
\* the result of the last call, by entry point
Returned(op) == call.op = op

RECURSIVE ScriptsStated(_, _, _)
\* the script hex of each output an outputs string states, read from offset idx for
\* the next left outputs: the L * 2 characters after the length, as far as the
\* string goes
ScriptsStated(outputs, idx, left) ==
    IF left = 0 \/ Len(outputs) < idx + 16 + 16
    THEN <<>>
    ELSE LET v == utils_varint_to_uint64(outputs, idx + 16)
             from == idx + 16 + v.len
             to == IF Sat(from + v.val * 2) < Len(outputs) THEN Sat(from + v.val * 2)
                   ELSE Len(outputs)
         IN  <<SubSeq(outputs, from + 1, to)>> \o ScriptsStated(outputs, to, left - 1)

\* the key at the change key path of a wallet_deserialize_output call
ChangeKey ==
    wallet_generate_key(UninitNode, call.args.keypath, mem.master, mem.chaincode,
                        TRUE, call.args.ckdOk)

\* no script the outputs string states holds the hex of the change key's HASH160
NoChangeScript ==
    \/ strlens(call.args.keypath) = 0
    \/ ChangeKey.ret # DBB_OK
    \/ \A j \in 1..Len(ScriptsStated(call.args.outputs, 2, call.args.stated)) :
           ~strstr(ScriptsStated(call.args.outputs, 2, call.args.stated)[j],
                   PubkeyHashHex(ChangeKey.node.private_key))

\* C1: wallet_deserialize_output on outputs stating two or more outputs, none of
\* whose scripts holds the hex of the HASH160 of the key at the change key path
\* (empty key path included), returns DBB_ERROR; it returns DBB_OK only when an
\* output was flagged as change or n_cnt = 1.
C1_ChangeEnforced ==
    Returned("wallet_deserialize_output") =>
        /\ (call.args.stated >= 2 /\ NoChangeScript) => call.ret = DBB_ERROR
        /\ call.ret = DBB_OK => (call.aux.change > 0 \/ call.aux.n_cnt = 1)

\* C1: a seeded wallet is handed two complete outputs paying elsewhere, with a key
\* path that derives, and the call has walked both and refused
C1_Witness ==
    /\ Returned("wallet_deserialize_output")
    /\ call.args.seeded = DBB_OK
    /\ call.args.keypath = KP_change
    /\ call.args.ckdOk
    /\ call.args.stated = 2
    /\ call.args.cut = 0
    /\ call.args.kinds = <<"other", "other">>
    /\ call.aux.n_cnt = 2
    /\ Len(call.aux.emitted) = 2
    /\ call.aux.change = 0
    /\ call.ret = DBB_ERROR

\* the entry points that hold an HDNode on their stack
NodeEntryPoints ==
    {"wallet_sign", "wallet_check_pubkey", "wallet_deserialize_output",
     "wallet_report_xpriv", "wallet_report_xpub", "wallet_master_from_mnemonic",
     "wallet_master_from_xpriv"}

\* C2: when an entry point that derives a key into a stack HDNode returns, on any
\* path, the HDNode it filled with key material has been zeroed.
C2_NodeZeroedOnExit ==
    call.op \in NodeEntryPoints => ~IsKeyMaterial(call.node)

\* the entry points after which the scratch buffers are to hold zeros
ScratchEntryPoints ==
    {"wallet_master_from_mnemonic", "wallet_master_from_xpriv", "wallet_sign",
     "wallet_check_pubkey", "wallet_report_xpriv", "wallet_report_xpub"}

\* C3: after wallet_master_from_mnemonic, wallet_master_from_xpriv, wallet_sign,
\* wallet_check_pubkey, wallet_report_xpriv or wallet_report_xpub returns, the
\* static buffers mnemonic, seed, rand_data_32, msg and salt hold only zeros.
C3_ScratchZeroed ==
    call.op \in ScratchEntryPoints =>
        /\ st.mnemonic = <<>>
        /\ st.seed = <<>>
        /\ st.rand_data_32 = <<>>
        /\ st.msg = <<>>
        /\ st.salt = <<>>

\* C4: wallet_get_outputs returns DBB_OK only if the region it walked ends inside
\* the transaction, and the outputs buffer then holds the whole substring from
\* the start of the outputs to the offset reached.
C4_NoPartialOutputs ==
    (Returned("wallet_get_outputs") /\ call.ret = DBB_OK) =>
        /\ call.aux.idx <= Len(call.args.tx)
        /\ call.aux.outputs = SubSeq(call.args.tx, call.aux.id_start + 1, call.aux.idx)

\* C5: wallet_mnemonic_check returns DBB_OK on the phrase wallet_mnemonic_from_data
\* makes from entropy of 16, 20, 24, 28 or 32 bytes.
C5_RoundTrip ==
    (Returned("wallet_mnemonic_check") /\ call.args.variant.kind = "plain") =>
        call.ret = DBB_OK

\* the checks of wallet_sign that fail for the arguments of the last call
HashLenFails == ~call.args.to_hash /\ strlens(call.args.message) # 64
SeededFails == call.args.seeded # DBB_OK
DeriveFails ==
    wallet_generate_key(UninitNode, call.args.keypath, mem.master, mem.chaincode,
                        call.args.env.mallocOk, call.args.env.ckdOk).ret # DBB_OK
EccFails == ~call.args.env.eccOk

\* C6: wallet_sign checks hash length, seeded, key derivation and ECC signing in
\* that order; the first check that fails alone gives the error reported
\* (SIGN_HASH_LEN, KEY_MASTER, KEY_CHILD, SIGN_ECCLIB) with DBB_ERROR returned, and
\* no later step runs after it.
C6_SignCheckOrder ==
    Returned("wallet_sign") =>
        IF HashLenFails
        THEN /\ call.ret = DBB_ERROR
             /\ call.report = <<DBB_ERR_SIGN_HASH_LEN>>
             /\ call.steps = <<"hash_len">>
        ELSE IF SeededFails
        THEN /\ call.ret = DBB_ERROR
             /\ call.report = <<DBB_ERR_KEY_MASTER>>
             /\ call.steps = <<"hash_len", "seeded">>
        ELSE IF DeriveFails
        THEN /\ call.ret = DBB_ERROR
             /\ call.report = <<DBB_ERR_KEY_CHILD>>
             /\ call.steps = <<"hash_len", "seeded", "generate_key">>
        ELSE IF EccFails
        THEN /\ call.ret = DBB_ERROR
             /\ call.report = <<DBB_ERR_SIGN_ECCLIB>>
             /\ call.steps = <<"hash_len", "seeded", "generate_key", "ecc_sign">>
        ELSE call.steps = <<"hash_len", "seeded", "generate_key", "ecc_sign",
                            "fill_signature">>

\* C6: an unseeded wallet is asked to sign a 62-character message with to_hash = 0,
\* and the call has reported the length error alone
C6_Witness ==
    /\ Returned("wallet_sign")
    /\ ~call.args.to_hash
    /\ strlens(call.args.message) = 62
    /\ call.args.seeded = DBB_ERROR
    /\ call.ret = DBB_ERROR
    /\ call.report = <<DBB_ERR_SIGN_HASH_LEN>>
    /\ call.steps = <<"hash_len">>

\* C7: when wallet_mnemonic_check accepts a phrase with single spaces, it accepts
\* the same words with separators replaced by commas.
C7_CommasAsSpaces ==
    (/\ Returned("wallet_mnemonic_check")
     /\ call.args.variant.kind \in {"comma_first", "comma_all"}
     /\ wallet_mnemonic_check(FALSE, call.args.base, <<>>, DBB_ERROR).ret = DBB_OK)
        => call.ret = DBB_OK

\* the levels of a key path that begins with m/
Levels(keypath) == strtok_all(Drop(keypath, 2), <<"/">>)

\* a level ends with a hardened marker
Marked(level) == Len(level) > 0 /\ strchr(<<"'", "h", "H", "p">>, level[Len(level)])

\* the digits of a level, its marker left off
Index(level) == IF Marked(level) THEN Take(level, Len(level) - 1) ELSE level

\* a level is decimal digits, then at most one marker; its value is at most
\* 2^32 - 1, and at most 2^31 - 1 when it is marked
LevelWellFormed(level) ==
    /\ \A i \in 1..Len(Index(level)) : strchr(digits, Index(level)[i])
    /\ ~strtoull10(Index(level), 1, U32(0, 0)).big
    /\ Marked(level) => strtoull10(Index(level), 1, U32(0, 0)).hi < HardenedLimb

PathWellFormed(keypath) ==
    /\ Len(keypath) >= 2
    /\ Take(keypath, 2) = <<"m", "/">>
    /\ \A k \in 1..Len(Levels(keypath)) : LevelWellFormed(Levels(keypath)[k])

\* C8: when allocation and every derivation step succeed, wallet_generate_key
\* returns DBB_OK exactly for the paths that begin with m/ and whose levels are
\* digits with at most one trailing marker, of value at most 2^32 - 1, and at most
\* 2^31 - 1 before hardening; on DBB_OK one step per level was applied in order,
\* hardened exactly for the marked levels.
C8_PathAcceptance ==
    (Returned("wallet_generate_key") /\ call.args.mallocOk /\ call.args.ckdOk) =>
        /\ call.ret = DBB_OK <=> PathWellFormed(call.args.keypath)
        /\ call.ret # DBB_OK => call.ret = DBB_ERROR
        /\ call.ret = DBB_OK =>
               /\ Len(call.aux.derivs) = Len(Levels(call.args.keypath))
               /\ \A k \in 1..Len(call.aux.derivs) :
                      /\ call.aux.derivs[k].lo =
                             strtoull10(Levels(call.args.keypath)[k], 1, U32(0, 0)).lo
                      /\ call.aux.derivs[k].hi >= HardenedLimb
                             <=> Marked(Levels(call.args.keypath)[k])

\* what wallet_deserialize_output is to report for the scripts handed in: each
\* output that does not hold the change hash, or each one when the key path is
\* empty, as its value and whole script, in order
Reported(scripts, keypath, hash) ==
    LET Kept(e) == strlens(keypath) = 0 \/ ~strstr(e.script, hash)
    IN  SelectSeq([j \in 1..Len(scripts) |->
                      [value |-> HexLE(OutValueHex, 0, 8), script |-> scripts[j]]],
                  Kept)

\* C9: wallet_deserialize_output takes the whole L * 2 characters of each output's
\* script, and reports the output, once and in order, exactly when the change key
\* path is empty or the script does not hold the hex of the change HASH160.
C9_FullScriptReported ==
    (/\ Returned("wallet_deserialize_output")
     /\ call.args.seeded = DBB_OK
     /\ call.args.cut = 0
     /\ call.args.stated = Len(call.args.scripts)
     /\ strlens(call.args.keypath) = 0 \/ ChangeKey.ret = DBB_OK)
        => call.aux.emitted =
               Reported(call.args.scripts, call.args.keypath,
                        PubkeyHashHex(ChangeKey.node.private_key))

\* C10: every write wallet_mnemonic_check makes into current_word, the
\* terminating zero included, is at an index in 0..9.
C10_WordBufferBound ==
    Returned("wallet_mnemonic_check") =>
        \A w \in call.aux.writes : w \in 0..(CurrentWordSize - 1)

====
